---------------------------- MODULE Spec2Model ----------------------------
(***************************************************************************)
(* A model of src/src/main.rs: a terminal snake game made of two threads.  *)
(* The simulation thread owns the field, the head and the tail; the input  *)
(* thread reads keys; the two share one record, Control, behind a Mutex.   *)
(*                                                                         *)
(* The field is a torus of ROWS x COLS tiles.  The program fixes 15 x 30;  *)
(* the model keeps every rule of the code and scales the torus down, so    *)
(* that TLC can enumerate every snake, every food placement and every      *)
(* interleaving of the two threads: COLS is the scale, and ROWS is half of *)
(* it, rounded up, as 15 is of 30.  The initial cells (7,14) and (7,13)    *)
(* are taken modulo the scaled dimensions (on a torus every cell is        *)
(* equivalent under translation, and for 15 x 30 the modulo is the         *)
(* identity).                                                              *)
(***************************************************************************)
EXTENDS Integers, FiniteSets, Sequences, TLC

\* ------------------------------------------------------------------ bounds
\* COLS scales the board; ROWS follows from it by the program's aspect ratio
\* (const COLS = 30 gives const ROWS = 15)
COLS == 3
ROWS == (COLS + 1) \div 2
\* largest lim the harness of step draws
MaxLim == 8

\* ------------------------------------------------------- program constants
HEAD_ROW == 7
HEAD_COL == 14
TAIL_ROW == 7
TAIL_COL == 13

\* ------------------------------------------------------------- data model
Polarity == {"Pos", "Neg"}

Hor(pol) == [axis |-> "Hor", pol |-> pol]
Ver(pol) == [axis |-> "Ver", pol |-> pol]

Other(pol) == IF pol = "Pos" THEN "Neg" ELSE "Pos"

\* the full reversal of a direction: same axis, other polarity
Opposite(d) == [axis |-> d.axis, pol |-> Other(d.pol)]

Direction == {Hor(pol) : pol \in Polarity} \cup {Ver(pol) : pol \in Polarity}

\* no direction: the value of last_accepted when nothing was accepted
NoDir == [axis |-> "none", pol |-> "none"]

\* a comparison of whole directions where the code compares variants
discriminant_whole(d) == d

\* std::mem::discriminant of a Direction: the variant, without its payload
discriminant(d) == d.axis

Cell(r, c) == [row |-> r, col |-> c]

Cells == {Cell(r, c) : r \in 0..(ROWS - 1), c \in 0..(COLS - 1)}

Empty == [t |-> "Empty"]
Food == [t |-> "Food"]
Snake(cell) == [t |-> "Snake", next |-> cell]

IsSnake(tile) == tile.t = "Snake"

Tile == {Empty, Food} \cup {Snake(c) : c \in Cells}

ArrowKeys == {"ArrowLeft", "ArrowRight", "ArrowUp", "ArrowDown"}
Keys == ArrowKeys \cup {"Escape", "Other"}

None == [some |-> FALSE]
Some(cell) == [some |-> TRUE, cell |-> cell]

\* ---------------------------------------------------------------- state
VARIABLES
    dir_current,  \* Control.dir_current
    dir_next,     \* Control.dir_next
    lock,         \* the Mutex around Control: "free", "sim" or "input"
    field,        \* the simulation thread's grid: Cells -> Tile
    head,         \* the tracked head cell
    tail,         \* the tracked tail cell
    sim_dir,      \* the simulation loop's local dir_current (line 112)
    pc_sim,       \* position of the simulation thread
    pc_in,        \* position of the input thread
    key,          \* the key the input thread is handling, or "none"
    exited,       \* TRUE once exit(0) has ended the process
    exit_status,  \* the status the process ended with, -1 while it runs
    last_accepted, \* history: the proposal last written since the last commit, or NoDir
    rejected,     \* history: a same-axis proposal was discarded since the last commit
    s_lim, s_p, s_pol, s_out, s_pc  \* the harness that applies step to drawn inputs

controlVars == <<dir_current, dir_next, lock>>
simVars == <<field, head, tail, sim_dir, pc_sim>>
inputVars == <<pc_in, key>>
stepVars == <<s_lim, s_p, s_pol, s_out, s_pc>>
vars == <<dir_current, dir_next, lock, field, head, tail, sim_dir, pc_sim,
          pc_in, key, exited, exit_status, rejected, last_accepted, s_lim, s_p, s_pol, s_out, s_pc>>

\* ------------------------------------------------------- pure functions
\* step without the wraparound tests
step_nowrap(p, pol, lim) == IF pol = "Pos" THEN p + 1 ELSE p - 1

\* step that wraps one index too late on the positive side
step_latewrap(p, pol, lim) ==
    IF pol = "Pos"
    THEN IF p = lim THEN 0 ELSE p + 1
    ELSE IF p = 0 THEN lim - 1 ELSE p - 1

\* fn step(p, pol, lim): one step along an axis of the torus
step(p, pol, lim) ==
    IF pol = "Pos"
    THEN IF p = lim - 1 THEN 0 ELSE p + 1
    ELSE IF p = 0 THEN lim - 1 ELSE p - 1

\* match dir_current { Hor(pol) => head.col = step(..), Ver(pol) => head.row = step(..) }
MoveHead(h, d) ==
    IF d.axis = "Hor"
    THEN Cell(h.row, step(h.col, d.pol, COLS))
    ELSE Cell(step(h.row, d.pol, ROWS), h.col)

\* the cells the scan of get_rnd_empty_cell collects
EmptyCells(f) == {c \in Cells : f[c] = Empty}

\* a search that falls back to the first cell where the code returns None
get_rnd_empty_cell_fallback(f) ==
    IF EmptyCells(f) = {} THEN {Some(Cell(0, 0))} ELSE {Some(c) : c \in EmptyCells(f)}

\* get_rnd_empty_cell: every result that the shuffle can produce
get_rnd_empty_cell(f) ==
    IF EmptyCells(f) = {} THEN {None} ELSE {Some(c) : c \in EmptyCells(f)}

\* a Food arm that never places the new food
FoodArm_skip(f, rnd) == f

\* the Food arm: place a new piece of food on the chosen cell, or nothing on None
FoodArm(f, rnd) == IF rnd.some THEN [f EXCEPT ![rnd.cell] = Food] ELSE f

\* an Empty arm that advances the tail and leaves the old tail tile in place
EmptyArmField_keep(f, t) == f

\* the Empty arm: if the tail tile is a Snake tile, clear it and follow its reference
EmptyArmField(f, t) == IF IsSnake(f[t]) THEN [f EXCEPT ![t] = Empty] ELSE f
\* an Empty arm that clears the tail tile and forgets to advance the tracked tail
EmptyArmTail_stay(f, t) == t

EmptyArmTail(f, t) == IF IsSnake(f[t]) THEN f[t].next ELSE t

\* head writes in which the previous head's tile refers to the previous head
WriteHead_prev_selfref(f, head_prev, h) ==
    [[f EXCEPT ![head_prev] = Snake(head_prev)] EXCEPT ![h] = Snake(h)]

\* head writes without the write to the previous head's cell (line 188)
WriteHead_newonly(f, head_prev, h) == [f EXCEPT ![h] = Snake(h)]

\* the two writes that end a tick, in the code's order
WriteHead(f, head_prev, h) ==
    [[f EXCEPT ![head_prev] = Snake(h)] EXCEPT ![h] = Snake(h)]

\* a Food tick that retracts the tail as an ordinary move does
FoodTick_retract(f, t, head_prev, h, rnd) ==
    [field |-> WriteHead(EmptyArmField(FoodArm(f, rnd), t), head_prev, h),
     tail |-> EmptyArmTail(f, t), pc |-> "render"]

\* the outcome of a tick whose head cell holds Food: new food, no retraction
FoodTick(f, t, head_prev, h, rnd) ==
    [field |-> WriteHead(FoodArm(f, rnd), head_prev, h), tail |-> t, pc |-> "render"]

\* a Snake tick without the break: the loop goes on to the head writes
SnakeTick_continue(f, t) == [field |-> f, tail |-> t, pc |-> "render"]

\* the outcome of a tick whose head cell holds a Snake tile: GAME OVER and break
SnakeTick(f, t) == [field |-> f, tail |-> t, pc |-> "done"]

\* the outcome of a tick whose head cell is Empty: pull the tail forward
EmptyTick(f, t, head_prev, h) ==
    [field |-> WriteHead(EmptyArmField(f, t), head_prev, h),
     tail |-> EmptyArmTail(f, t), pc |-> "render"]

\* the arrow-key match of the input loop
KeyDir(k) ==
    CASE k = "ArrowLeft" -> Hor("Neg")
      [] k = "ArrowRight" -> Hor("Pos")
      [] k = "ArrowUp" -> Ver("Neg")
      [] k = "ArrowDown" -> Ver("Pos")

\* ------------------------------------------------------------ initial state
InitHead == Cell(HEAD_ROW % ROWS, HEAD_COL % COLS)
InitTail == Cell(TAIL_ROW % ROWS, TAIL_COL % COLS)

InitSnakeField ==
    [[[c \in Cells |-> Empty] EXCEPT ![InitHead] = Snake(InitHead)]
        EXCEPT ![InitTail] = Snake(InitHead)]

\* lines 107-109: the first food goes on a random empty cell
InitField(rnd) == [InitSnakeField EXCEPT ![rnd.cell] = Food]

StepIdle ==
    /\ s_lim = 1
    /\ s_p = 0
    /\ s_pol = "Pos"
    /\ s_out = 0
    /\ s_pc = "idle"

GameInit ==
    /\ dir_current = Hor("Pos")
    /\ dir_next = Hor("Pos")
    /\ lock = "free"
    /\ head = InitHead
    /\ tail = InitTail
    /\ \E rnd \in get_rnd_empty_cell(InitSnakeField) : field = InitField(rnd)
    /\ sim_dir = Hor("Pos")
    /\ pc_sim = "lock"
    /\ pc_in = "read"
    /\ key = "none"
    /\ exited = FALSE
    /\ exit_status = -1
    /\ rejected = FALSE
    /\ last_accepted = NoDir

Init == GameInit /\ StepIdle

\* ------------------------------------------------------ simulation thread
\* a loop that starts over after GAME OVER instead of breaking
SimLock_restart ==
    /\ ~exited
    /\ pc_sim \in {"lock", "done"}
    /\ lock = "free"
    /\ lock' = "sim"
    /\ pc_sim' = "commit"
    /\ UNCHANGED <<dir_current, dir_next, field, head, tail, sim_dir,
                   pc_in, key, exited, exit_status, rejected, last_accepted, stepVars>>

\* a lock that does not wait for its holder to release it
SimLock_nowait ==
    /\ ~exited
    /\ pc_sim = "lock"
    /\ lock' = "sim"
    /\ pc_sim' = "commit"
    /\ UNCHANGED <<dir_current, dir_next, field, head, tail, sim_dir,
                   pc_in, key, exited, exit_status, rejected, last_accepted, stepVars>>

\* control_thread.lock().unwrap()
SimLock ==
    /\ ~exited
    /\ pc_sim = "lock"
    /\ lock = "free"
    /\ lock' = "sim"
    /\ pc_sim' = "commit"
    /\ UNCHANGED <<dir_current, dir_next, field, head, tail, sim_dir,
                   pc_in, key, exited, exit_status, rejected, last_accepted, stepVars>>

\* a commit that swaps the two directions instead of copying dir_next
SimCommit_swap ==
    /\ ~exited
    /\ pc_sim = "commit"
    /\ dir_current' = dir_next
    /\ dir_next' = dir_current
    /\ sim_dir' = dir_current'
    /\ lock' = "free"
    /\ pc_sim' = "move"
    /\ rejected' = FALSE
    /\ last_accepted' = NoDir
    /\ UNCHANGED <<field, head, tail, pc_in, key, exited, exit_status, stepVars>>

\* a commit that reads dir_current without copying dir_next into it
SimCommit_nocopy ==
    /\ ~exited
    /\ pc_sim = "commit"
    /\ sim_dir' = dir_current
    /\ lock' = "free"
    /\ pc_sim' = "move"
    /\ UNCHANGED <<dir_current, dir_next, field, head, tail, pc_in, key, exited,
                   exit_status, rejected, last_accepted, stepVars>>

\* control.dir_current = control.dir_next.clone(); control.dir_current.clone();
\* the guard is dropped at the end of the block
SimCommit ==
    /\ ~exited
    /\ pc_sim = "commit"
    /\ dir_current' = dir_next
    /\ sim_dir' = dir_current'
    /\ lock' = "free"
    /\ pc_sim' = "move"
    /\ rejected' = FALSE
    /\ last_accepted' = NoDir
    /\ UNCHANGED <<dir_next, field, head, tail, pc_in, key, exited, exit_status, stepVars>>

\* lines 142-192: move the head, classify the tile under it, update the field
SimMove ==
    /\ ~exited
    /\ pc_sim = "move"
    /\ LET head_prev == head
           h == MoveHead(head, sim_dir)
       IN /\ head' = h
          /\ \E out \in
                 CASE field[h] = Food ->
                        {FoodTick(field, tail, head_prev, h, rnd) :
                            rnd \in get_rnd_empty_cell(field)}
                   [] IsSnake(field[h]) -> {SnakeTick(field, tail)}
                   [] field[h] = Empty -> {EmptyTick(field, tail, head_prev, h)} :
                /\ field' = out.field
                /\ tail' = out.tail
                /\ pc_sim' = out.pc
    /\ UNCHANGED <<dir_current, dir_next, lock, sim_dir, pc_in, key, exited, exit_status,
                   rejected, last_accepted, stepVars>>

\* lines 194-214: clear the screen, write one glyph per tile, flush
SimRender ==
    /\ ~exited
    /\ pc_sim = "render"
    /\ pc_sim' = "sleep"
    /\ UNCHANGED <<dir_current, dir_next, lock, field, head, tail, sim_dir,
                   pc_in, key, exited, exit_status, rejected, last_accepted, stepVars>>

\* thread::sleep(100 ms), then the next iteration of the loop
SimSleep ==
    /\ ~exited
    /\ pc_sim = "sleep"
    /\ pc_sim' = "lock"
    /\ UNCHANGED <<dir_current, dir_next, lock, field, head, tail, sim_dir,
                   pc_in, key, exited, exit_status, rejected, last_accepted, stepVars>>

\* ----------------------------------------------------------- input thread
\* a match whose catch-all arm exits as the Escape arm does
InputReadKey_other_exits ==
    /\ ~exited
    /\ pc_in = "read"
    /\ \E k \in Keys :
          CASE k \in ArrowKeys ->
                  /\ key' = k
                  /\ pc_in' = "lock"
                  /\ UNCHANGED <<exited, exit_status>>
            [] k \in {"Escape", "Other"} ->
                  /\ key' = k
                  /\ exited' = TRUE
                  /\ exit_status' = 0
                  /\ pc_in' = pc_in
    /\ UNCHANGED <<dir_current, dir_next, lock, field, head, tail, sim_dir,
                   pc_sim, rejected, last_accepted, stepVars>>

\* term.read_key() and the outer match on the key
InputReadKey ==
    /\ ~exited
    /\ pc_in = "read"
    /\ \E k \in Keys :
          CASE k \in ArrowKeys ->
                  /\ key' = k
                  /\ pc_in' = "lock"
                  /\ UNCHANGED <<exited, exit_status>>
            [] k = "Escape" ->
                  /\ key' = k
                  /\ exited' = TRUE
                  /\ exit_status' = 0
                  /\ pc_in' = pc_in
            [] k = "Other" ->
                  /\ UNCHANGED <<key, pc_in, exited, exit_status>>
    /\ UNCHANGED <<dir_current, dir_next, lock, field, head, tail, sim_dir,
                   pc_sim, rejected, last_accepted, stepVars>>

\* control.lock().unwrap()
InputLock ==
    /\ ~exited
    /\ pc_in = "lock"
    /\ lock = "free"
    /\ lock' = "input"
    /\ pc_in' = "check"
    /\ UNCHANGED <<dir_current, dir_next, field, head, tail, sim_dir, pc_sim,
                   key, exited, exit_status, rejected, last_accepted, stepVars>>

\* a check against the pending dir_next where the code reads dir_current
InputCheck_vs_next ==
    /\ ~exited
    /\ pc_in = "check"
    /\ IF discriminant(dir_next) # discriminant(KeyDir(key))
       THEN /\ pc_in' = "write"
            /\ rejected' = rejected
       ELSE /\ pc_in' = "unlock"
            /\ rejected' = TRUE
    /\ UNCHANGED <<dir_current, dir_next, lock, field, head, tail, sim_dir,
                   pc_sim, key, exited, exit_status, last_accepted, stepVars>>

\* a handler without the if: every arrow key goes on to the write
InputCheck_no_guard ==
    /\ ~exited
    /\ pc_in = "check"
    /\ pc_in' = "write"
    /\ rejected' = (rejected \/ discriminant(dir_current) = discriminant(KeyDir(key)))
    /\ UNCHANGED <<dir_current, dir_next, lock, field, head, tail, sim_dir,
                   pc_sim, key, exited, exit_status, last_accepted, stepVars>>

\* if discriminant(&ctrl.dir_current) != discriminant(&dir_next)
InputCheck ==
    /\ ~exited
    /\ pc_in = "check"
    /\ IF discriminant(dir_current) # discriminant(KeyDir(key))
       THEN /\ pc_in' = "write"
            /\ rejected' = rejected
       ELSE /\ pc_in' = "unlock"
            /\ rejected' = TRUE
    /\ UNCHANGED <<dir_current, dir_next, lock, field, head, tail, sim_dir,
                   pc_sim, key, exited, exit_status, last_accepted, stepVars>>

\* a write that keeps the first proposal accepted since the commit
InputWrite_first_wins ==
    /\ ~exited
    /\ pc_in = "write"
    /\ dir_next' = (IF dir_next = dir_current THEN KeyDir(key) ELSE dir_next)
    /\ last_accepted' = KeyDir(key)
    /\ pc_in' = "unlock"
    /\ UNCHANGED <<dir_current, lock, field, head, tail, sim_dir, pc_sim,
                   key, exited, exit_status, rejected, stepVars>>

\* ctrl.dir_next = dir_next
InputWrite ==
    /\ ~exited
    /\ pc_in = "write"
    /\ dir_next' = KeyDir(key)
    /\ last_accepted' = KeyDir(key)
    /\ pc_in' = "unlock"
    /\ UNCHANGED <<dir_current, lock, field, head, tail, sim_dir, pc_sim,
                   key, exited, exit_status, rejected, stepVars>>

\* a handler that leaks its guard: the lock is never released
InputUnlock_leak ==
    /\ ~exited
    /\ pc_in = "unlock"
    /\ pc_in' = "read"
    /\ key' = "none"
    /\ UNCHANGED <<dir_current, dir_next, lock, field, head, tail, sim_dir, pc_sim,
                   exited, exit_status, rejected, last_accepted, stepVars>>

\* the guard ctrl is dropped at the end of the match arm
InputUnlock ==
    /\ ~exited
    /\ pc_in = "unlock"
    /\ lock' = "free"
    /\ pc_in' = "read"
    /\ key' = "none"
    /\ UNCHANGED <<dir_current, dir_next, field, head, tail, sim_dir, pc_sim,
                   exited, exit_status, rejected, last_accepted, stepVars>>

Next ==
    \/ SimLock
    \/ SimCommit
    \/ SimMove
    \/ SimRender
    \/ SimSleep
    \/ InputReadKey
    \/ InputLock
    \/ InputCheck
    \/ InputWrite
    \/ InputUnlock

Spec == Init /\ [][Next]_vars

\* the steps of each thread
SimNext == SimLock \/ SimCommit \/ SimMove \/ SimRender \/ SimSleep
InputNext == InputReadKey \/ InputLock \/ InputCheck \/ InputWrite \/ InputUnlock

\* Scheduling.  Both threads are preemptively scheduled OS threads: a thread
\* whose next step needs nothing but the processor takes it (weak fairness of the
\* steps after the lock is taken; read_key may block forever, so InputReadKey is
\* not fair).  Each thread holds the lock for a few instructions and then leaves
\* it free for a 100 ms sleep or a blocking read, so a thread waiting on the lock
\* finds it free again and again and takes it (strong fairness of the two lock
\* steps).
SpecFair ==
    /\ Spec
    /\ WF_vars(SimCommit \/ SimMove \/ SimRender \/ SimSleep)
    /\ WF_vars(InputCheck \/ InputWrite \/ InputUnlock)
    /\ SF_vars(SimLock)
    /\ SF_vars(InputLock)

\* the input thread reads the exit key
InputExit == InputReadKey /\ exited'

\* ------------------------------------------------ step applied to drawn inputs
InitStep ==
    /\ GameInit
    /\ s_lim \in 1..MaxLim
    /\ s_p \in 0..(s_lim - 1)
    /\ s_pol \in Polarity
    /\ s_out = s_p
    /\ s_pc = "in"

\* one step with the drawn polarity
StepThere ==
    /\ s_pc = "in"
    /\ s_out' = step(s_p, s_pol, s_lim)
    /\ s_pc' = "there"
    /\ UNCHANGED <<controlVars, simVars, inputVars, exited, exit_status, rejected, last_accepted, s_lim, s_p, s_pol>>

\* one step back with the other polarity
StepBack ==
    /\ s_pc = "there"
    /\ s_out' = step(s_out, Other(s_pol), s_lim)
    /\ s_pc' = "back"
    /\ UNCHANGED <<controlVars, simVars, inputVars, exited, exit_status, rejected, last_accepted, s_lim, s_p, s_pol>>

NextStep ==
    \/ StepThere
    \/ StepBack

SpecStep == InitStep /\ [][NextStep]_vars

\* ------------------------------------------------------------ properties
SnakeCells(f) == {c \in Cells : IsSnake(f[c])}
FoodCells(f) == {c \in Cells : f[c] = Food}

\* the segments right behind the head: the cells whose reference names the head
NeckCells(f, h) == {c \in Cells \ {h} : f[c] = Snake(h)}

\* the length of the axis a direction moves along
AxisLen(d) == IF d.axis = "Hor" THEN COLS ELSE ROWS

\* the step of the simulation thread that commits dir_next
CommitStep == pc_sim = "commit" /\ pc_sim' = "move"

\* the step of the simulation thread that moves the head
MoveStep == pc_sim = "move" /\ pc_sim' # "move"

\* the cell the head is about to step on
Stepped == MoveHead(head, sim_dir)

\* the condition C1 puts on every step
C1_Step ==
    /\ dir_current' # Opposite(dir_current)
    /\ (MoveStep /\ AxisLen(sim_dir) >= 3) => Stepped \notin NeckCells(field, head)

\* C1: under every interleaving of key events and ticks, the direction a commit
\* writes is never the reversal of the direction committed before it, and (on an
\* axis of at least three cells, where reversing is the only way back) the head
\* never steps onto the segment right behind it.
C1_NoReversal == [][C1_Step]_vars

\* C1 witness: key mashing before a commit: a same-axis proposal was discarded, a
\* perpendicular one is pending, the reversal key is waiting for the lock, and the
\* simulation thread is about to commit.
C1_Witness ==
    /\ pc_sim = "commit"
    /\ rejected
    /\ dir_next # dir_current
    /\ pc_in = "lock"
    /\ KeyDir(key) = Opposite(dir_current)

\* the derived direction of each arrow key, as the claim lists them
C2_Derived ==
    [k \in ArrowKeys |->
        CASE k = "ArrowLeft" -> [axis |-> "Hor", pol |-> "Neg"]
          [] k = "ArrowRight" -> [axis |-> "Hor", pol |-> "Pos"]
          [] k = "ArrowUp" -> [axis |-> "Ver", pol |-> "Neg"]
          [] k = "ArrowDown" -> [axis |-> "Ver", pol |-> "Pos"]]

\* the condition C2 puts on every step
C2_Step ==
    pc_in \in {"check", "write"} =>
       /\ dir_current' = dir_current
       /\ IF C2_Derived[key].axis # dir_current.axis
          THEN \/ pc_in' = pc_in /\ dir_next' = dir_next
               \/ pc_in = "check" /\ pc_in' = "write" /\ dir_next' = dir_next
               \/ pc_in = "write" /\ pc_in' = "unlock" /\ dir_next' = C2_Derived[key]
          ELSE /\ pc_in = "check"
               /\ pc_in' \in {"check", "unlock"}
               /\ dir_next' = dir_next

\* C2: inside the handler of an arrow key, the derived direction is written to
\* dir_next if and only if its axis differs from the axis of dir_current: on a
\* different axis the handler goes through the write and leaves dir_next equal to
\* the derived direction; on the same axis it skips the write and dir_next keeps
\* its value, whatever the pending dir_next is.  dir_current is never written.
C2_TurnValidation == [][C2_Step]_vars

\* C2 witness: ArrowLeft has just been discarded against dir_current = Hor(Pos)
\* although the pending dir_next, Ver(Neg), is on the other axis.
C2_Witness ==
    /\ pc_in = "unlock"
    /\ key = "ArrowLeft"
    /\ dir_current = Hor("Pos")
    /\ dir_next = Ver("Neg")

\* the condition C3 puts on every step
C3_OriginalStep ==
    (CommitStep /\ rejected) => dir_current' = dir_current

\* C3 as stated: after a proposal on the axis of dir_current was discarded, the
\* next commit leaves dir_current as it was at the time of the proposal.
C3_Original == [][C3_OriginalStep]_vars

\* the condition C3 puts on every step
C3_Step ==
    /\ (pc_in = "check" /\ pc_in' # "check"
           /\ KeyDir(key).axis = dir_current.axis) =>
         /\ pc_in' = "unlock"
         /\ dir_next' = dir_next
         /\ dir_current' = dir_current
    /\ (CommitStep /\ rejected) =>
         /\ dir_current' = dir_next
         /\ dir_next = dir_current \/ dir_next.axis # dir_current.axis

\* C3 amended: a proposal on the axis of dir_current is discarded: the handler
\* skips the write and changes neither dir_next nor dir_current; the next commit
\* then takes the pending dir_next, which is dir_current as it was at the time of
\* the proposal unless a perpendicular proposal was accepted since the previous
\* commit, and in that case is that perpendicular direction.
C3_RejectedKeepsPending == [][C3_Step]_vars

\* C3 witness: a commit is about to happen after a discarded proposal, with no
\* accepted proposal pending.
C3_Witness ==
    /\ pc_sim = "commit"
    /\ rejected
    /\ dir_next = dir_current
    /\ pc_in = "read"

\* C4: in every reachable state the field holds at most one Food tile, and
\* exactly one whenever at least one cell is Empty.
C4_FoodInvariant ==
    /\ Cardinality(FoodCells(field)) <= 1
    /\ EmptyCells(field) # {} => Cardinality(FoodCells(field)) = 1

\* C4 witness: a tick has completed with a snake that has eaten twice, while
\* Empty cells remain and one Food tile is on the field.
C4_Witness ==
    /\ pc_sim = "render"
    /\ Cardinality(SnakeCells(field)) >= 4
    /\ EmptyCells(field) # {}
    /\ Cardinality(FoodCells(field)) = 1

\* the condition C5 puts on every step
C5_Step ==
    (MoveStep /\ field[Stepped] = Food /\ EmptyCells(field) = {}) =>
       /\ get_rnd_empty_cell(field) = {None}
       /\ pc_sim' = "render"
       /\ head' = Stepped
       /\ Cardinality(SnakeCells(field')) = Cardinality(SnakeCells(field)) + 1
       /\ FoodCells(field') = {}

\* C5: when the head steps onto Food and no cell is Empty, the search returns
\* None, the tick completes (the loop goes on to render), the head is advanced,
\* the snake has one more tile and the field holds no Food tile.
C5_FullFieldNonFatal == [][C5_Step]_vars

\* C5 witness: the tick that ate the last Food has completed: every cell of the
\* field is a Snake tile and the loop is at its render pass.
C5_Witness ==
    /\ pc_sim = "render"
    /\ SnakeCells(field) = Cells

\* the condition C6 puts on every step
C6_Step ==
    (MoveStep /\ field[Stepped] = Empty) =>
       /\ IsSnake(field[tail])
       /\ field'[tail] = Empty
       /\ tail' = field[tail].next
       /\ head' = Stepped
       /\ IsSnake(field'[Stepped])
       /\ pc_sim' = "render"
       /\ Cardinality(SnakeCells(field')) = Cardinality(SnakeCells(field))
       /\ (head = InitHead /\ tail = InitTail /\ sim_dir = Hor("Pos")
              /\ SnakeCells(field) = {InitHead, InitTail}) =>
             /\ Stepped = Cell(HEAD_ROW % ROWS, (HEAD_COL + 1) % COLS)
             /\ SnakeCells(field') = {InitHead, Stepped}
             /\ field'[InitTail] = Empty

\* C6: a tick whose stepped cell is Empty clears the old tail cell, moves the
\* tracked tail to the cell its tile referred to, makes the stepped cell a Snake
\* tile and keeps the number of Snake tiles; from the initial snake (head (7,14),
\* tail (7,13), direction Hor(Pos)) it leaves Snake tiles on (7,14) and (7,15)
\* only and (7,13) Empty (cells taken on the scaled torus).
C6_OrdinaryMove == [][C6_Step]_vars

\* C6 witness: the first tick was an ordinary move to the right: the head is on
\* (7,15), the tail on (7,14), and (7,13) is Empty.
C6_Witness ==
    /\ pc_sim = "render"
    /\ sim_dir = Hor("Pos")
    /\ head = Cell(HEAD_ROW % ROWS, (HEAD_COL + 1) % COLS)
    /\ tail = InitHead
    /\ field[InitTail] = Empty
    /\ Cardinality(SnakeCells(field)) = 2

\* the condition C7 puts on every step
C7_Step ==
    (MoveStep /\ field[Stepped] = Food) =>
       /\ tail' = tail
       /\ field'[tail] = field[tail]
       /\ head' = Stepped
       /\ field'[Stepped] = Snake(Stepped)
       /\ pc_sim' = "render"
       /\ Cardinality(SnakeCells(field')) = Cardinality(SnakeCells(field)) + 1

\* C7: a tick whose stepped cell is Food leaves the tracked tail and the tail
\* tile as they were, makes the stepped cell the new head, and adds exactly one
\* Snake tile.
C7_Growth == [][C7_Step]_vars

\* C7 witness: the snake has eaten once: three Snake tiles, the tail still on its
\* initial cell, and a new Food tile on the field.
C7_Witness ==
    /\ pc_sim = "render"
    /\ Cardinality(SnakeCells(field)) = 3
    /\ tail = InitTail
    /\ Cardinality(FoodCells(field)) = 1

\* the condition C8 puts on every step
C8_Step ==
    (MoveStep /\ IsSnake(field[Stepped])
         /\ Cardinality(SnakeCells(field)) >= 2) =>
       /\ pc_sim' = "done"
       /\ field' = field
       /\ tail' = tail

\* C8: a tick whose stepped cell holds a Snake tile (the current tail cell
\* included), with a snake of at least two tiles, ends the tick loop in the
\* game-over state and changes no tile of the field.
C8_SelfCollision == [][C8_Step]_vars

\* C8 witness: the game is over because the head stepped onto the tail cell,
\* which an ordinary move would have vacated.
C8_Witness ==
    /\ pc_sim = "done"
    /\ head = tail
    /\ IsSnake(field[head])

\* step stays in [0, lim) and wraps at both ends, for every lim up to MaxLim
C9_StepInRange ==
    \A lim \in 1..MaxLim : \A p \in 0..(lim - 1) :
       /\ \A pol \in Polarity : step(p, pol, lim) \in 0..(lim - 1)
       /\ step(lim - 1, "Pos", lim) = 0
       /\ step(0, "Neg", lim) = lim - 1

\* C9: for every lim >= 1, p in [0, lim) and polarity, step stays in [0, lim),
\* wrapping lim-1 to 0 and 0 to lim-1; and in every reachable state the tracked
\* head, the tracked tail and every Snake tile's reference are cells of the field.
C9_Bounds ==
    /\ C9_StepInRange
    /\ DOMAIN field = Cells
    /\ head \in Cells
    /\ tail \in Cells
    /\ \A c \in Cells : IsSnake(field[c]) => field[c].next \in Cells

\* C9 witness: a tick moving Hor(Neg) has wrapped the head from column 0 to the
\* last column.
C9_Witness ==
    /\ pc_sim = "render"
    /\ sim_dir = Hor("Neg")
    /\ head.col = COLS - 1

\* C10: for every lim >= 1 and p in [0, lim), a step with one polarity followed by
\* a step with the other returns p.
C10_RoundTrip == s_pc = "back" => s_out = s_p

\* C10 witness: the round trip that starts by wrapping from 0 to lim-1.
C10_Witness ==
    /\ s_pc = "back"
    /\ s_pol = "Neg"
    /\ s_p = 0
    /\ s_lim >= 2

\* the condition C11 puts on every step
C11_Step ==
    /\ pc_sim = "done" =>
          UNCHANGED <<pc_sim, field, head, tail, sim_dir, dir_current>>
    /\ (MoveStep /\ pc_sim' = "done") => UNCHANGED <<exited, exit_status>>
    /\ (pc_sim = "done" /\ ~exited) => ENABLED InputNext
    /\ (pc_sim = "done" /\ ~exited /\ pc_in = "read") => ENABLED InputExit

\* C11: after a fatal collision no tick ever occurs (the simulation thread stays
\* stopped; the field, the head, the tail and dir_current never change again);
\* the collision does not end the process; the input thread can still take its
\* next step, and when it is reading a key the exit key still ends the process.
C11_GameOverStopsSimulationOnly == [][C11_Step]_vars

\* C11 witness: the game is over, the input thread has accepted a proposal after
\* it (nothing committed it), and the exit key has then ended the process.
C11_Witness ==
    /\ pc_sim = "done"
    /\ exited
    /\ exit_status = 0
    /\ last_accepted # NoDir

\* the condition C12 puts on every step
C12_Step ==
    /\ exited => UNCHANGED vars
    /\ (exited' /\ ~exited) =>
          /\ pc_in = "read"
          /\ key' = "Escape"
          /\ exit_status' = 0
          /\ UNCHANGED <<dir_current, dir_next, lock, field, head, tail, sim_dir,
                         pc_sim, pc_in, rejected, last_accepted>>
    /\ ~exited' => exit_status' = -1
    /\ (~exited /\ pc_in = "read") => ENABLED InputExit

\* C12: whenever the input thread is reading a key, whatever the simulation thread
\* is doing, the exit key can be read, and reading it ends the process with
\* status 0; once the process has ended no step of either thread happens; and the
\* process ends by no other step than the input thread reading Escape.
C12_ExitKey == [][C12_Step]_vars

\* C12 witness: the process was ended while the simulation thread held the lock
\* in the middle of its commit.
C12_Witness ==
    /\ exited
    /\ exit_status = 0
    /\ key = "Escape"
    /\ pc_sim = "commit"
    /\ lock = "sim"

\* the handler's critical section: from the lock to the drop of the guard
InputCS == {"check", "write", "unlock"}

\* at most one thread is inside its critical section
C13_Exclusive == ~(pc_sim = "commit" /\ pc_in \in InputCS)

\* the condition C13 puts on every step
C13_Step ==
    /\ C13_Exclusive
    /\ C13_Exclusive'
    /\ pc_in \in {"check", "write"} => (~CommitStep /\ dir_current' = dir_current)
    /\ pc_sim = "commit" => (dir_next' = dir_next /\ pc_in' \notin InputCS)
    /\ CommitStep => (dir_current' = dir_next /\ sim_dir' = dir_next)
    /\ pc_sim = "move" => sim_dir = dir_current
    /\ MoveStep => head' = MoveHead(head, dir_current)

\* C13: commit-and-read and propose exclude each other: the two threads are never
\* inside their critical sections together, no commit happens between a
\* proposal's check and its write, no proposal step happens inside a commit, and
\* the direction a tick moves by is the dir_next its commit read.
C13_Atomicity == [][C13_Step]_vars

\* C13 witness: the simulation thread waits for the lock while the input thread
\* is between its check and its write.
C13_Witness ==
    /\ pc_sim = "lock"
    /\ pc_in = "write"
    /\ lock = "input"

\* the lock is held exactly inside the two critical sections
C14_Discipline ==
    /\ lock = "sim" <=> pc_sim = "commit"
    /\ lock = "input" <=> pc_in \in InputCS
    /\ lock \in {"free", "sim", "input"}

\* C14: the simulation thread holds the lock only during commit-and-read (not
\* while moving, rendering or sleeping), the input thread only while handling an
\* arrow key (not while reading); and a thread waiting for the lock gets it (the
\* simulation thread unless the process exits first).
C14_LockDiscipline ==
    /\ []C14_Discipline
    /\ (pc_in = "lock") ~> (pc_in = "check")
    /\ (pc_sim = "lock") ~> (pc_sim = "commit" \/ exited)

\* C14 witness: both threads contend: the input thread waits for the lock that
\* the simulation thread holds for its commit.
C14_Witness ==
    /\ pc_in = "lock"
    /\ pc_sim = "commit"
    /\ lock = "sim"

\* the condition C15 puts on every step
C15_Step ==
    /\ CommitStep =>
          dir_current' = (IF last_accepted # NoDir THEN last_accepted ELSE dir_current)
    /\ (pc_in = "write" /\ pc_in' = "unlock") =>
          /\ last_accepted' = C2_Derived[key]
          /\ C2_Derived[key].axis # dir_current.axis
    /\ (last_accepted' # last_accepted /\ ~CommitStep) => pc_in = "write"

\* C15: the direction a commit writes is the proposal accepted last since the
\* previous commit, each proposal having been judged against the dir_current of
\* the previous commit; with no accepted proposal in between it is the direction
\* committed before.
C15_LatestValidWins == [][C15_Step]_vars

\* C15 witness: a second proposal of one interval has passed the check and is
\* about to overwrite a different proposal accepted earlier in the interval.
C15_Witness ==
    /\ pc_in = "write"
    /\ last_accepted # NoDir
    /\ last_accepted # KeyDir(key)
    /\ dir_next = last_accepted

\* the toroidal 4-neighbours of a cell
Neighbours(c) == {MoveHead(c, d) : d \in Direction}

\* the cells met from c by following references, until a tile that refers to
\* itself or is no Snake tile, in at most n steps
RECURSIVE ChainFrom(_, _, _)
ChainFrom(f, c, n) ==
    IF n = 0 \/ ~IsSnake(f[c]) \/ f[c].next = c
    THEN <<c>>
    ELSE <<c>> \o ChainFrom(f, f[c].next, n - 1)

\* the chain visits every Snake tile exactly once
ChainCoversSnake(ch) ==
    /\ {ch[i] : i \in 1..Len(ch)} = SnakeCells(field)
    /\ Len(ch) = Cardinality(SnakeCells(field))

\* C16: between ticks, following the references from the tracked tail visits
\* every Snake tile exactly once and ends at the tracked head, whose tile refers
\* to itself; every other segment refers to a toroidal 4-neighbour that is a
\* Snake tile.  (After the fatal tick the loop has ended with the tracked head
\* advanced onto the tile it hit: the chain is then still whole and ends at the
\* last head tile.)
C16_ChainInvariant ==
    LET ch == ChainFrom(field, tail, ROWS * COLS)
        last == ch[Len(ch)]
    IN /\ ChainCoversSnake(ch)
       /\ field[last] = Snake(last)
       /\ pc_sim # "done" => last = head
       /\ \A c \in SnakeCells(field) \ {last} :
             /\ field[c].next \in Neighbours(c)
             /\ IsSnake(field[field[c].next])

\* C16 witness: a snake of at least five segments between two ticks.
C16_Witness ==
    /\ pc_sim = "sleep"
    /\ Cardinality(SnakeCells(field)) >= 5
    /\ Len(ChainFrom(field, tail, ROWS * COLS)) >= 5

\* the condition C17 puts on every step
C17_Step ==
    /\ (pc_in' # pc_in \/ key' # key) =>
          UNCHANGED <<dir_current, field, head, tail, sim_dir, pc_sim>>
    /\ pc_sim' # pc_sim => UNCHANGED <<dir_next, pc_in, key>>
    /\ dir_next' # dir_next => (pc_in = "write" /\ pc_in' = "unlock")
    /\ (dir_current' # dir_current \/ field' # field \/ head' # head \/ tail' # tail) =>
          pc_sim' # pc_sim

\* C17: a step of the input thread changes at most dir_next among the shared and
\* simulation state: dir_current, the field, the head and the tail are unchanged;
\* a step of the simulation thread never changes dir_next; dir_next changes only
\* in the handler's write, and dir_current, field, head and tail only in a step of
\* the simulation thread.
C17_SingleWriter == [][C17_Step]_vars

\* C17 witness: both writers have acted: a tick has moved the snake vertically
\* and the handler has since written a horizontal proposal.
C17_Witness ==
    /\ pc_sim = "render"
    /\ sim_dir.axis = "Ver"
    /\ pc_in = "unlock"
    /\ last_accepted = dir_next
    /\ dir_next.axis = "Hor"

\* the condition of C18 as stated
C18_OriginalStep ==
    (MoveStep /\ pc_sim' = "render") =>
       /\ field'[head] = Snake(head)
       /\ field'[head'] = Snake(head')

\* C18 as stated: after a non-fatal tick the tile on the previous head's cell
\* refers to the previous head position and the new head's tile to itself.
C18_Original == [][C18_OriginalStep]_vars

\* the condition C18, amended, puts on every step
C18_Step ==
    (MoveStep /\ pc_sim' = "render") =>
       /\ head' # head
       /\ field'[head] = Snake(head')
       /\ field'[head'] = Snake(head')

\* C18 amended: after a non-fatal tick the tile on the previous head's cell is a
\* Snake tile that refers to the new head position, and the new head's tile is a
\* Snake tile that refers to itself.
C18_HeadWrite == [][C18_Step]_vars

\* C18 witness: a tick has completed and a tile other than the head's refers to
\* the head.
C18_Witness ==
    /\ pc_sim = "render"
    /\ NeckCells(field, head) # {}
    /\ field[head] = Snake(head)

\* what C19 says of a state
C19_Inv ==
    /\ Cardinality(SnakeCells(field)) >= 2
    /\ IsSnake(field[head])
    /\ IsSnake(field[tail])
    /\ pc_sim # "done" => head # tail

\* the condition C19 puts on every step
C19_Step ==
    /\ C19_Inv
    /\ C19_Inv'
    /\ (MoveStep /\ field[Stepped] = Empty) =>
          /\ IsSnake(field[tail])
          /\ tail' # tail
          /\ field'[tail] = Empty
    /\ Cardinality(SnakeCells(field')) >= Cardinality(SnakeCells(field))

\* C19: between ticks the snake has at least two segments and the tracked head
\* and tail are distinct cells that hold Snake tiles, so a move into an Empty
\* cell always finds a Snake tile on the tail and retracts it; and no step lowers
\* the number of Snake tiles.  (After the fatal tick the tracked head is the tile
\* it hit, which may be the tail.)
C19_TwoSegments == [][C19_Step]_vars

\* C19 witness: a snake of two segments has made an ordinary move: the tail has
\* left its initial cell.
C19_Witness ==
    /\ pc_sim = "sleep"
    /\ Cardinality(SnakeCells(field)) = 2
    /\ tail # InitTail
    /\ field[InitTail] # Snake(InitHead)

=============================================================================
